---- MODULE Spec2Model ----
(***************************************************************************)
(* Model of testing.py: the Streamlit recipe query assistant.  One script  *)
(* run (an "interaction") loads the dataset, reads the query, and, when    *)
(* the button was pressed with a non-empty query, walks through            *)
(* translate -> run -> (retry) -> summarize | fallback.                    *)
(*                                                                         *)
(* A table is modelled as the set of row identifiers it holds.  A piece    *)
(* of generated code is modelled by what exec() makes of it: whether the   *)
(* text contains "result =", which rows it drops from df in place, how     *)
(* its evaluation ends, and which rows a table bound to result keeps.      *)
(***************************************************************************)
EXTENDS Integers, Sequences, FiniteSets, TLC

\* Number of rows of recipe.csv in the model.
NumRows == 2

Rows == 1..NumRows

\* The table pd.read_csv("recipe.csv") yields.
Dataset0 == Rows

(***************************************************************************)
(* Values                                                                  *)
(***************************************************************************)
\* Python values a run can hand back, and the unassigned name `result`.
None == [kind |-> "None", rows |-> {}]
Scalar == [kind |-> "scalar", rows |-> {}]
Unset == [kind |-> "unset", rows |-> {}]
Table(S) == [kind |-> "table", rows |-> S]

\* The empty string, and a whitespace-only model reply.
EmptyCode == [assign |-> FALSE, drop |-> {}, outcome |-> "empty", keep |-> {}]
BlankCode == [assign |-> FALSE, drop |-> {}, outcome |-> "blank", keep |-> {}]

\* Text without "result =", e.g. "df.head()".
NoAssignCode == [assign |-> FALSE, drop |-> {}, outcome |-> "unbound", keep |-> {}]

\* Non-empty texts the model may reply with.  outcome:
\*   "table"   result = df[...]            (binds a table)
\*   "scalar"  result = len(df)            (binds a value that is not a table)
\*   "unbound" Result = df / result = None (passes the substring test, binds nothing)
\*   "raise"   result = df['nope']         (raises an Exception)
\*   "exit"    result = exit()             (raises SystemExit, not an Exception)
\* drop: rows removed in place (df.drop(..., inplace=True)) before that.
Exprs ==
    {NoAssignCode}
    \cup [assign : {TRUE}, drop : SUBSET Rows, outcome : {"table"}, keep : SUBSET Rows]
    \cup [assign : {TRUE}, drop : SUBSET Rows,
          outcome : {"scalar", "unbound", "raise", "exit"}, keep : {{}}]

\* Replies of ollama.chat to the translate prompt: an exception, or content.
CodeReplies == [fail : BOOLEAN, content : Exprs \cup {EmptyCode, BlankCode}]

\* Replies of ollama.chat to the summarize and fallback prompts.
TextReplies == {"exception", "", "text"}

Apology == "apology"

Queries == {"", "q"}

VARIABLES
    pc,              \* position of the script
    user_query,      \* st.text_input value
    df,              \* the module-level DataFrame
    generated_code,  \* local of the main logic
    result,          \* local of the main logic
    shown,           \* sequence of widgets displayed in this interaction
    shownCode,       \* argument of st.code
    shownTable,      \* argument of st.dataframe
    shownText,       \* argument of the last st.write
    gen,             \* values returned by generate_query_code, in order
    ran,             \* values returned by execute_query_code, in order
    runCalls,        \* calls of execute_query_code
    summarizeCalls,  \* summarization calls of ollama.chat
    fallbackCalls,   \* calls of get_llm_response
    fault            \* exception that escaped the script, or "none"

vars == <<pc, user_query, df, generated_code, result, shown, shownCode,
          shownTable, shownText, gen, ran, runCalls, summarizeCalls,
          fallbackCalls, fault>>

(***************************************************************************)
(* Functions of the script                                                 *)
(***************************************************************************)
\* str.strip() on the reply content.
Strip(c) == IF c = BlankCode THEN EmptyCode ELSE c

\* generate_query_code: the stripped content, "" on any exception.
generate_query_code(reply) ==
    IF reply.fail THEN EmptyCode ELSE Strip(reply.content)

\* "result =" in code.lower()
HasResultAssignment(code) == code.assign

\* exec(code, {}, {"df": d}): the DataFrame object afterwards, what
\* exec_locals.get("result", None) sees, and how the evaluation ended.
ExecCode(code, d) ==
    LET after == d \ code.drop
    IN  [df |-> after,
         bound |-> CASE code.outcome = "table" -> Table(after \cap code.keep)
                     [] code.outcome = "scalar" -> Scalar
                     [] OTHER -> None,
         ends |-> CASE code.outcome = "raise" -> "Exception"
                    [] code.outcome = "exit" -> "SystemExit"
                    [] OTHER -> "ok"]

\* execute_query_code: returned value, DataFrame afterwards, escaping exception.
execute_query_code(code, d) ==
    IF ~HasResultAssignment(code)
    THEN [ret |-> None, df |-> d, esc |-> "none"]
    ELSE LET e == ExecCode(code, d)
         IN  CASE e.ends = "ok" -> [ret |-> e.bound, df |-> e.df, esc |-> "none"]
               [] e.ends = "Exception" -> [ret |-> None, df |-> e.df, esc |-> "none"]
               [] OTHER -> [ret |-> Unset, df |-> e.df, esc |-> "SystemExit"]

\* get_llm_response: the content, the apology on any exception.
get_llm_response(reply) ==
    IF reply = "exception" THEN Apology ELSE reply

\* Variant: the emptiness test on the generated code is missing.
IsFalsy_Never(code) == FALSE

\* `not generated_code`
IsFalsy(code) == code = EmptyCode

\* Variant: no retry at all.
NeedsRetry_Never(r) == FALSE

\* Variant: an empty table is retried as well.
NeedsRetry_OnEmpty(r) == r = None \/ r = Table({})

\* `result is None`
NeedsRetry(r) == r = None

\* `result.empty` raises AttributeError on a value that is not a table.
EmptyRaises(r) == r # None /\ r.kind # "table"

\* Variant: the emptiness test on the result is missing.
HasRows_NoEmptyTest(r) == r # None /\ r.kind = "table"

\* Variant: the emptiness test on the result is inverted.
HasRows_Inverted(r) == r # None /\ r.kind = "table" /\ r.rows = {}

\* `result is not None and not result.empty`
HasRows(r) == r # None /\ r.kind = "table" /\ r.rows # {}

\* Variant: a failed translation is dropped silently.
TranslateFailureWidgets_Silent == <<>>

\* Widgets of the translate-failure branch.
TranslateFailureWidgets == <<"warn_translate">>

\* Widgets of the summarize try/except for each reply.
SummaryWidgets(reply) ==
    CASE reply = "exception" -> <<"warn_summarize">>
      [] reply = "" -> <<"warn_noinsights">>
      [] OTHER -> <<"insights_header", "insights">>

\* Widgets of the fallback branch.
FallbackWidgets == <<"fallback_header", "fallback">>

(***************************************************************************)
(* Initial state: the script has not run yet.                              *)
(***************************************************************************)
Init ==
    /\ pc = "idle"
    /\ user_query = ""
    /\ df = Dataset0
    /\ generated_code = EmptyCode
    /\ result = Unset
    /\ shown = <<>>
    /\ shownCode = EmptyCode
    /\ shownTable = Unset
    /\ shownText = ""
    /\ gen = <<>>
    /\ ran = <<>>
    /\ runCalls = 0
    /\ summarizeCalls = 0
    /\ fallbackCalls = 0
    /\ fault = "none"

Fresh ==
    /\ generated_code' = EmptyCode
    /\ result' = Unset
    /\ shown' = <<>>
    /\ shownCode' = EmptyCode
    /\ shownTable' = Unset
    /\ shownText' = ""
    /\ gen' = <<>>
    /\ ran' = <<>>
    /\ runCalls' = 0
    /\ summarizeCalls' = 0
    /\ fallbackCalls' = 0
    /\ fault' = "none"

Resting == pc \in {"idle", "done", "fault", "stopped"}

\* A script run whose read_csv succeeds: df is loaded anew, the widgets are
\* read, and the main logic is entered when the button was pressed with a
\* non-empty query.
Rerun(q, pressed) ==
    /\ Resting
    /\ Fresh
    /\ df' = Dataset0
    /\ user_query' = q
    /\ pc' = IF pressed /\ q # "" THEN "translate1" ELSE "idle"

\* A script run whose read_csv raises FileNotFoundError: st.error, st.stop.
LoadFail ==
    /\ Resting
    /\ Fresh
    /\ df' = {}
    /\ user_query' = ""
    /\ pc' = "stopped"

\* generated_code = generate_query_code(user_query) and the test on it.
Translate1(reply) ==
    /\ pc = "translate1"
    /\ LET code == generate_query_code(reply)
       IN  /\ generated_code' = code
           /\ gen' = Append(gen, code)
           /\ IF IsFalsy(code)
              THEN /\ shown' = shown \o TranslateFailureWidgets
                   /\ shownCode' = shownCode
                   /\ pc' = "done"
              ELSE /\ shown' = shown \o <<"code_header", "code">>
                   /\ shownCode' = code
                   /\ pc' = "run1"
    /\ UNCHANGED <<user_query, df, result, shownTable, shownText, ran,
                   runCalls, summarizeCalls, fallbackCalls, fault>>

\* result = execute_query_code(generated_code), first or retry call.
Run(here, onNone) ==
    /\ pc = here
    /\ LET r == execute_query_code(generated_code, df)
       IN  /\ df' = r.df
           /\ runCalls' = runCalls + 1
           /\ IF r.esc # "none"
              THEN /\ fault' = r.esc
                   /\ pc' = "fault"
                   /\ UNCHANGED <<result, ran>>
              ELSE /\ result' = r.ret
                   /\ ran' = Append(ran, r.ret)
                   /\ fault' = fault
                   /\ pc' = IF here = "run1" /\ NeedsRetry(r.ret)
                            THEN onNone ELSE "branch"
    /\ UNCHANGED <<user_query, generated_code, shown, shownCode, shownTable,
                   shownText, gen, summarizeCalls, fallbackCalls>>

Run1 == Run("run1", "translate2")

\* generated_code = generate_query_code(user_query) of the retry.
Translate2(reply) ==
    /\ pc = "translate2"
    /\ LET code == generate_query_code(reply)
       IN  /\ generated_code' = code
           /\ gen' = Append(gen, code)
    /\ pc' = "run2"
    /\ UNCHANGED <<user_query, df, result, shown, shownCode, shownTable,
                   shownText, ran, runCalls, summarizeCalls, fallbackCalls,
                   fault>>

Run2 == Run("run2", "branch")

\* if result is not None and not result.empty: ... else: ...
Branch ==
    /\ pc = "branch"
    /\ IF EmptyRaises(result)
       THEN /\ fault' = "AttributeError"
            /\ pc' = "fault"
            /\ UNCHANGED <<shown, shownTable>>
       ELSE IF HasRows(result)
       THEN /\ shown' = shown \o <<"success", "table">>
            /\ shownTable' = result
            /\ pc' = "summarize"
            /\ fault' = fault
       ELSE /\ pc' = "fallback"
            /\ UNCHANGED <<shown, shownTable, fault>>
    /\ UNCHANGED <<user_query, df, generated_code, result, shownCode,
                   shownText, gen, ran, runCalls, summarizeCalls,
                   fallbackCalls>>

\* The summarization call of ollama.chat and its try/except.
Summarize(reply) ==
    /\ pc = "summarize"
    /\ summarizeCalls' = summarizeCalls + 1
    /\ shown' = shown \o SummaryWidgets(reply)
    /\ shownText' = IF reply = "text" THEN reply ELSE shownText
    /\ pc' = "done"
    /\ UNCHANGED <<user_query, df, generated_code, result, shownCode,
                   shownTable, gen, ran, runCalls, fallbackCalls, fault>>

\* llm_response = get_llm_response(user_query) and its display.
Fallback(reply) ==
    /\ pc = "fallback"
    /\ fallbackCalls' = fallbackCalls + 1
    /\ shown' = shown \o FallbackWidgets
    /\ shownText' = get_llm_response(reply)
    /\ pc' = "done"
    /\ UNCHANGED <<user_query, df, generated_code, result, shownCode,
                   shownTable, gen, ran, runCalls, summarizeCalls, fault>>

Next ==
    \/ \E q \in Queries, pressed \in BOOLEAN : Rerun(q, pressed)
    \/ LoadFail
    \/ \E reply \in CodeReplies : Translate1(reply)
    \/ Run1
    \/ \E reply \in CodeReplies : Translate2(reply)
    \/ Run2
    \/ Branch
    \/ \E reply \in TextReplies : Summarize(reply)
    \/ \E reply \in TextReplies : Fallback(reply)

Spec == Init /\ [][Next]_vars

(***************************************************************************)
(* Properties                                                              *)
(***************************************************************************)
Displayed(w) == \E i \in 1..Len(shown) : shown[i] = w

NoRows == {None, Table({})}

\* The attempts are over: the script is at or past the test of line 124.
PastAttempts ==
    \/ pc \in {"branch", "summarize", "fallback"}
    \/ pc = "done" /\ Len(ran) >= 1
    \/ pc = "fault" /\ fault = "AttributeError"

\* C1: when the first translate returned text and the first run returned
\* absent, exactly one more translate and one more run have been made once
\* the script moves on to summarize or fallback, and there is never a third.
C1_SingleRetry ==
    /\ Len(gen) <= 2 /\ runCalls <= 2
    /\ (PastAttempts /\ ran[1] = None) => (Len(gen) = 2 /\ runCalls = 2)

C1_Witness ==
    /\ pc = "fallback" /\ Len(ran) = 2 /\ ran[1] = None
    /\ Len(gen) = 2 /\ runCalls = 2

\* C2: when the final result is an empty table or absent, fallback is
\* invoked exactly once and the summarization call never.
C2_FallbackOnly ==
    (pc \in {"branch", "fallback", "done"} /\ result \in NoRows)
        => /\ summarizeCalls = 0
           /\ fallbackCalls = IF pc = "done" THEN 1 ELSE 0

C2_Witness ==
    pc = "done" /\ result = Table({}) /\ fallbackCalls = 1 /\ summarizeCalls = 0

\* C3: when the initial translate returns the empty string, run, summarize
\* and a second translate never happen and the failure warning is the next
\* (and only) thing shown.
C3_TranslateFailure ==
    (Len(gen) >= 1 /\ gen[1] = EmptyCode)
        => /\ pc = "done"
           /\ shown = <<"warn_translate">>
           /\ Len(gen) = 1
           /\ runCalls = 0 /\ summarizeCalls = 0 /\ fallbackCalls = 0

C3_Witness ==
    pc = "done" /\ gen = <<EmptyCode>> /\ shown = <<"warn_translate">>

\* C4: when the final result is a non-empty table, the summarization call is
\* invoked exactly once and fallback never; no interaction invokes both.
C4_SummarizeOnly ==
    /\ ~(summarizeCalls > 0 /\ fallbackCalls > 0)
    /\ (pc = "done" /\ result.kind = "table" /\ result.rows # {})
           => (summarizeCalls = 1 /\ fallbackCalls = 0)

C4_Witness ==
    /\ pc = "done" /\ result.kind = "table" /\ result.rows # {}
    /\ summarizeCalls = 1 /\ fallbackCalls = 0

C6_NoFault ==
    runCalls = Len(ran) => fault = "none"

\* C7: the dataset is never mutated: once loaded, df equals the table read
\* from recipe.csv, in particular whenever a run evaluates against it.
C7_DatasetImmutable ==
    pc # "stopped" => df = Dataset0

\* C8 as stated: when the first run yields an empty table or absent, two
\* execution attempts are made, both yielding empty or absent, fallback text
\* is displayed and summarization is never invoked.
C8_Original ==
    (pc = "done" /\ Len(ran) >= 1 /\ ran[1] \in NoRows)
        => /\ runCalls = 2 /\ Len(ran) = 2 /\ ran[2] \in NoRows
           /\ Displayed("fallback")
           /\ summarizeCalls = 0

\* C8 as amended: when the first run yields absent two execution attempts
\* are made, when it yields an empty table only one; if the final result is
\* empty or absent, fallback text is displayed and summarization is never
\* invoked.
C8_Amended ==
    (pc = "done" /\ Len(ran) >= 1 /\ ran[1] \in NoRows)
        => /\ runCalls = IF ran[1] = None THEN 2 ELSE 1
           /\ Len(ran) = runCalls
           /\ ran[Len(ran)] \in NoRows
                  => (Displayed("fallback") /\ summarizeCalls = 0)

C8_Witness ==
    /\ pc = "done" /\ ran = <<Table({})>> /\ runCalls = 1
    /\ Displayed("fallback") /\ summarizeCalls = 0

\* C9: a displayed table equals what the most recently generated expression
\* assigns to result when evaluated against the dataset as loaded.
C9_TableIsLastExpression ==
    shownTable # Unset
        => shownTable = ExecCode(gen[Len(gen)], Dataset0).bound

\* C10: when code text and a table are both displayed, the displayed code is
\* the expression whose evaluation produced the displayed table.
C10_CodeMatchesTable ==
    (Displayed("code") /\ Displayed("table")) => shownCode = gen[Len(gen)]

====
